---- MODULE Spec2Model ----
(***************************************************************************)
(* A model of watch-scroll.js: the class that watches the visibility of a  *)
(* DOM element in the browser window.  The object's fields are the record  *)
(* `this`; the host (window) is the record `window`; the bounding client   *)
(* rectangle of the element is `rect`.  JavaScript values are coded as     *)
(* strings ("true", "false", "null", "undefined", "function", ...) so that *)
(* the strict comparisons of the source (===, !==) are plain equalities.   *)
(***************************************************************************)
EXTENDS Integers, Sequences, FiniteSets, TLC

VARIABLES this, window, rect, created, last, stopped

vars == <<this, window, rect, created, last, stopped>>

----------------------------------------------------------------------------
(* Bounds of the model. *)

\* Closures setupEvents may create in one behaviour.
MaxHandlers == 2

\* Properties a conditions object of the matching behaviours may have.
MaxFields == 2

\* Largest coordinate of the grid of geometries (the smallest is -1).
GridMax == 3

\* Longer side of the viewports of the grid of geometries.
GridView == 2

----------------------------------------------------------------------------
(* JavaScript values. *)

True == "true"
False == "false"
Null == "null"
Undefined == "undefined"
Function == "function"
Element == "element"
All == "all"
Hidden == "hidden"

\* this.scrollHandler before setupEvents has run: no closure.
NoHandler == 0

Bool(b) == IF b THEN True ELSE False

\* ToBoolean of the values the model uses.
Truthy(v) == v \notin {False, Null, Undefined, ""}

\* ToNumber of a boolean, as the relational operators apply it.
ToNumber(v) == IF v = True THEN 1 ELSE 0

\* The conditions argument: undefined, a string, or an object given as the
\* set of its <<property, value>> pairs.
CondUndefined == [type |-> "undefined", str |-> "", fields |-> {}]
CondString(s) == [type |-> "string", str |-> s, fields |-> {}]
CondObject(fs) == [type |-> "object", str |-> "", fields |-> fs]

TypeOf(c) == c.type

IsAll(c) == c.type = "string" /\ c.str = All

\* ToBoolean of a conditions argument.
TruthyCond(c) == c.type = "object" \/ (c.type = "string" /\ c.str # "")

\* obj[k] of an object: undefined for a property it does not have.
Get(obj, k) == IF k \in DOMAIN obj THEN obj[k] ELSE Undefined

----------------------------------------------------------------------------
(* checkPosition: the status of a geometry. *)

Sides == {"top", "right", "bottom", "left", "centerIsVisible", "visibility"}

InitialStatus ==
  [top |-> Null, right |-> Null, bottom |-> Null, left |-> Null,
   centerIsVisible |-> Null, visibility |-> Null]

\* JSON.parse( JSON.stringify( obj ) ): properties holding undefined are dropped.
JSONClone(obj) == [k \in {j \in DOMAIN obj : obj[j] # Undefined} |-> obj[k]]

\* EdgeVisible with the far bound exclusive.
EdgeVisibleStrict(c, extent) == Bool(c >= 0 /\ c < extent)

\* An edge coordinate against the viewport's extent on its axis.
EdgeVisible(c, extent) == Bool(c >= 0 /\ c <= extent)

\* centerPoint = ((left + right) / 2, (top + bottom) / 2) against the viewport;
\* the halves are compared doubled.
CenterIsVisible(r, w) ==
  Bool(/\ r.left + r.right >= 0
       /\ r.top + r.bottom >= 0
       /\ r.left + r.right <= 2 * w.innerWidth
       /\ r.top + r.bottom <= 2 * w.innerHeight)

\* Visibility with partial requiring both vertical edges.
VisibilityBothEdges(t, b, l, r, w) ==
  IF Truthy(t) /\ Truthy(b) /\ Truthy(l) /\ Truthy(r) THEN "full"
  ELSE IF /\ ToNumber(t) < 0
          /\ ToNumber(b) > w.innerHeight
          /\ ToNumber(l) < 0
          /\ ToNumber(r) > w.innerWidth THEN "overflow"
  ELSE IF (Truthy(t) /\ Truthy(b)) /\ (Truthy(l) \/ Truthy(r)) THEN "partial"
  ELSE Hidden

\* Visibility without the final else: no value where no branch applies.
VisibilityNoElse(t, b, l, r, w) ==
  IF Truthy(t) /\ Truthy(b) /\ Truthy(l) /\ Truthy(r) THEN "full"
  ELSE IF /\ ToNumber(t) < 0
          /\ ToNumber(b) > w.innerHeight
          /\ ToNumber(l) < 0
          /\ ToNumber(r) > w.innerWidth THEN "overflow"
  ELSE IF (Truthy(t) \/ Truthy(b)) /\ (Truthy(l) \/ Truthy(r)) THEN "partial"
  ELSE Null

\* The visibility class from the four edge flags.
Visibility(t, b, l, r, w) ==
  IF Truthy(t) /\ Truthy(b) /\ Truthy(l) /\ Truthy(r) THEN "full"
  ELSE IF /\ ToNumber(t) < 0
          /\ ToNumber(b) > w.innerHeight
          /\ ToNumber(l) < 0
          /\ ToNumber(r) > w.innerWidth THEN "overflow"
  ELSE IF (Truthy(t) \/ Truthy(b)) /\ (Truthy(l) \/ Truthy(r)) THEN "partial"
  ELSE Hidden

ComputeStatus(r, w) ==
  LET t == EdgeVisible(r.top, w.innerHeight)
      b == EdgeVisible(r.bottom, w.innerHeight)
      rt == EdgeVisible(r.right, w.innerWidth)
      l == EdgeVisible(r.left, w.innerWidth)
  IN [top |-> t, right |-> rt, bottom |-> b, left |-> l,
      centerIsVisible |-> CenterIsVisible(r, w),
      visibility |-> Visibility(t, b, l, rt, w)]

----------------------------------------------------------------------------
(* checkPosition: matching and notification. *)

\* StatusChange with previousStatus an alias of this.status instead of a copy:
\* the status is compared with itself.
StatusChangeAliased(previousStatus, status) ==
  \E side \in DOMAIN status : status[side] # status[side]

\* Some property of the status differs from the previous status.
StatusChange(previousStatus, status) ==
  \E side \in DOMAIN status : Get(previousStatus, side) # status[side]

\* One property of the conditions object fails against the status.
SideFails(value, statusValue) ==
  \/ value = Hidden /\ statusValue # False
  \/ value # Hidden /\ statusValue # Bool(Truthy(value))

\* ObjectMatches with the loop skipping the properties the status does not have.
ObjectMatchesOwn(conditions, status) ==
  ~ \E p \in conditions.fields :
      p[1] \in DOMAIN status /\ SideFails(p[2], Get(status, p[1]))

\* The local conditionsMatch after the loop over the conditions object.
ObjectMatches(conditions, status) ==
  ~ \E p \in conditions.fields : SideFails(p[2], Get(status, p[1]))

\* The locals conditionsMatch and statusChange before the notification test.
Locals(t, previousStatus, status) ==
  IF t.conditionsMatch = All \/ IsAll(t.conditions)
  THEN [conditionsMatch |-> True,
        statusChange |-> Bool(StatusChange(previousStatus, status))]
  ELSE IF TypeOf(t.conditions) = "object"
  THEN [conditionsMatch |-> Bool(ObjectMatches(t.conditions, status)),
        statusChange |-> Bool(~ObjectMatches(t.conditions, status))]
  ELSE [conditionsMatch |-> True, statusChange |-> False]

\* Notifies with the comparison against the recorded match left out: a boolean
\* or null record always admits the notification.
NotifiesEveryTime(t, loc) ==
  \/ t.conditionsMatch \in {True, False, Null}
  \/ Truthy(t.onEveryScrollEvent)
  \/ IsAll(t.conditions) /\ loc.statusChange = True

\* Notifies without the onEveryScrollEvent alternative.
NotifiesOnChangeOnly(t, loc) ==
  \/ t.conditionsMatch \in {True, False, Null} /\ loc.conditionsMatch # t.conditionsMatch
  \/ IsAll(t.conditions) /\ loc.statusChange = True

\* Notifies with the first alternative for a boolean record only, not for null.
NotifiesNotNull(t, loc) ==
  \/ t.conditionsMatch \in {True, False} /\ loc.conditionsMatch # t.conditionsMatch
  \/ Truthy(t.onEveryScrollEvent)
  \/ IsAll(t.conditions) /\ loc.statusChange = True

\* The test that admits a notification.
Notifies(t, loc) ==
  \/ t.conditionsMatch \in {True, False, Null} /\ loc.conditionsMatch # t.conditionsMatch
  \/ Truthy(t.onEveryScrollEvent)
  \/ IsAll(t.conditions) /\ loc.statusChange = True

\* this.conditionsMatch once the test has passed.
RecordedMatch(t, loc) ==
  IF t.conditionsMatch # All THEN loc.conditionsMatch ELSE t.conditionsMatch

\* Callbacks with callbackFalse as the plain alternative: it is invoked whenever
\* callbackTrue is not.
CallbacksElseFalse(t, match, event) ==
  IF Truthy(match) /\ t.callbackTrue = Function
  THEN <<[callback |-> "callbackTrue", event |-> event]>>
  ELSE IF t.callbackFalse = Function
  THEN <<[callback |-> "callbackFalse", event |-> event]>>
  ELSE <<>>

\* The callbacks invoked once the test has passed, each with its event.
Callbacks(t, match, event) ==
  IF Truthy(match) /\ t.callbackTrue = Function
  THEN <<[callback |-> "callbackTrue", event |-> event]>>
  ELSE IF ~Truthy(match) /\ t.callbackFalse = Function
  THEN <<[callback |-> "callbackFalse", event |-> event]>>
  ELSE <<>>

\* CallArgs of a handler that does not pass its event on.
CallArgsNoEvent(t, event) ==
  [thisArg |-> t.element, event |-> Undefined, status |-> t.status, watchScroll |-> t]

\* What an invoked callback receives: the element as its this, then the event,
\* this.status and the object itself.
CallArgs(t, event) ==
  [thisArg |-> t.element, event |-> event, status |-> t.status, watchScroll |-> t]

\* checkPosition( event ) on object t, in viewport w, with bounding rectangle r.
\* Reading the rectangle of a missing element raises a TypeError.
CheckPosition(t, w, r, event) ==
  IF t.element # Element
  THEN [this |-> t, notified |-> 0, calls |-> <<>>, args |-> <<>>, threw |-> TRUE]
  ELSE
    LET previousStatus == JSONClone(t.status)
        status == ComputeStatus(r, w)
        t1 == [t EXCEPT !.status = status]
        loc == Locals(t1, previousStatus, status)
        t2 == [t1 EXCEPT !.conditionsMatch = RecordedMatch(t1, loc)]
        calls == Callbacks(t2, t2.conditionsMatch, event)
    IN IF Notifies(t1, loc)
       THEN [this |-> t2,
             notified |-> 1,
             calls |-> calls,
             args |-> [i \in 1 .. Len(calls) |-> CallArgs(t2, event)],
             threw |-> FALSE]
       ELSE [this |-> t1, notified |-> 0, calls |-> <<>>, args |-> <<>>,
             threw |-> FALSE]

----------------------------------------------------------------------------
(* setupEvents, cancel and the dispatch of a window event. *)

\* setupEvents(): a new closure over checkPosition, registered for scroll and
\* resize through whichever registration function the window offers.
SetupEvents(t, w, n) ==
  LET h == n + 1
      attached == [scroll |-> Append(w.listeners.scroll, h),
                   resize |-> Append(w.listeners.resize, h)]
  IN [this |-> [t EXCEPT !.scrollHandler = h],
      window |-> IF w.api \in {"addEventListener", "attachEvent"}
                 THEN [w EXCEPT !.listeners = attached]
                 ELSE w,
      created |-> h]

\* A listener list without the handler h.
Without(listeners, h) == SelectSeq(listeners, LAMBDA x : x # h)

\* cancel(): removes this.scrollHandler.  Where the window only has attachEvent,
\* the call of window.dettachEvent, which no window defines, raises a TypeError.
Cancel(t, w) ==
  IF w.api = "addEventListener"
  THEN [window |-> [w EXCEPT !.listeners =
                      [scroll |-> Without(w.listeners.scroll, t.scrollHandler),
                       resize |-> Without(w.listeners.resize, t.scrollHandler)]],
        threw |-> FALSE]
  ELSE IF w.api = "attachEvent"
  THEN [window |-> w, threw |-> TRUE]
  ELSE [window |-> w, threw |-> FALSE]

\* The window calls the listeners of an event in turn; each is a closure that
\* calls checkPosition( event ).  A listener that throws does not stop the rest.
RECURSIVE Dispatch(_, _, _, _, _)
Dispatch(t, w, r, event, listeners) ==
  IF listeners = <<>>
  THEN [this |-> t, evals |-> 0, notified |-> 0, calls |-> <<>>, args |-> <<>>,
        threw |-> FALSE]
  ELSE LET first == CheckPosition(t, w, r, event)
           rest == Dispatch(first.this, w, r, event, Tail(listeners))
       IN [this |-> rest.this,
           evals |-> 1 + rest.evals,
           notified |-> first.notified + rest.notified,
           calls |-> first.calls \o rest.calls,
           args |-> first.args \o rest.args,
           threw |-> first.threw \/ rest.threw]

----------------------------------------------------------------------------
(* The constructor, on and always. *)

\* Watch without the test of this.element.
WatchUnguarded(t, w, r, n) ==
  IF TruthyCond(t.conditions) /\ (Truthy(t.callbackTrue) \/ Truthy(t.callbackFalse))
  THEN LET s == SetupEvents(t, w, n)
           c == CheckPosition(s.this, s.window, r, Undefined)
       IN [this |-> c.this, window |-> s.window, created |-> s.created,
           evals |-> 1, notified |-> c.notified, calls |-> c.calls, args |-> c.args,
           threw |-> c.threw]
  ELSE [this |-> t, window |-> w, created |-> n,
        evals |-> 0, notified |-> 0, calls |-> <<>>, args |-> <<>>, threw |-> FALSE]

\* Watch without the test of the callbacks.
WatchAnyCallback(t, w, r, n) ==
  IF ~Truthy(t.element)
  THEN [this |-> t, window |-> w, created |-> n,
        evals |-> 0, notified |-> 0, calls |-> <<>>, args |-> <<>>, threw |-> FALSE]
  ELSE IF TruthyCond(t.conditions)
  THEN LET s == SetupEvents(t, w, n)
           c == CheckPosition(s.this, s.window, r, Undefined)
       IN [this |-> c.this, window |-> s.window, created |-> s.created,
           evals |-> 1, notified |-> c.notified, calls |-> c.calls, args |-> c.args,
           threw |-> c.threw]
  ELSE [this |-> t, window |-> w, created |-> n,
        evals |-> 0, notified |-> 0, calls |-> <<>>, args |-> <<>>, threw |-> FALSE]

\* The common tail of the constructor, on and always: nothing without an
\* element; with conditions and a callback, setupEvents then checkPosition.
Watch(t, w, r, n) ==
  IF ~Truthy(t.element)
  THEN [this |-> t, window |-> w, created |-> n,
        evals |-> 0, notified |-> 0, calls |-> <<>>, args |-> <<>>, threw |-> FALSE]
  ELSE IF TruthyCond(t.conditions) /\ (Truthy(t.callbackTrue) \/ Truthy(t.callbackFalse))
  THEN LET s == SetupEvents(t, w, n)
           c == CheckPosition(s.this, s.window, r, Undefined)
       IN [this |-> c.this, window |-> s.window, created |-> s.created,
           evals |-> 1, notified |-> c.notified, calls |-> c.calls, args |-> c.args,
           threw |-> c.threw]
  ELSE [this |-> t, window |-> w, created |-> n,
        evals |-> 0, notified |-> 0, calls |-> <<>>, args |-> <<>>, threw |-> FALSE]

\* Whether Watch(t, ...) reaches setupEvents.
Watches(t) ==
  /\ Truthy(t.element)
  /\ TruthyCond(t.conditions)
  /\ Truthy(t.callbackTrue) \/ Truthy(t.callbackFalse)

\* The fields the constructor sets before it looks at the element.
Constructed(element, conditions, callbackTrue, callbackFalse, onEveryScrollEvent) ==
  [element |-> element,
   status |-> InitialStatus,
   conditionsMatch |-> IF TypeOf(conditions) = "string" THEN All ELSE Null,
   conditions |-> conditions,
   callbackTrue |-> callbackTrue,
   callbackFalse |-> callbackFalse,
   onEveryScrollEvent |-> onEveryScrollEvent,
   scrollHandler |-> NoHandler]

\* The fields on sets before it looks at the element.
OnFields(t, conditions, callbackTrue, callbackFalse, onEveryScrollEvent) ==
  [t EXCEPT !.conditionsMatch = IF TypeOf(conditions) = "string" THEN All ELSE Null,
            !.conditions = conditions,
            !.callbackTrue = callbackTrue,
            !.callbackFalse = callbackFalse,
            !.onEveryScrollEvent = onEveryScrollEvent]

\* AlwaysFields that also stores an omitted onEveryScrollEvent, as on does.
AlwaysFieldsResetting(t, callbackTrue) ==
  [t EXCEPT !.conditionsMatch = All,
            !.conditions = CondString(All),
            !.callbackTrue = callbackTrue,
            !.onEveryScrollEvent = Undefined]

\* AlwaysFields that also clears callbackFalse.
AlwaysFieldsClearing(t, callbackTrue) ==
  [t EXCEPT !.conditionsMatch = All,
            !.conditions = CondString(All),
            !.callbackTrue = callbackTrue,
            !.callbackFalse = Undefined]

\* The fields always sets before it looks at the element.
AlwaysFields(t, callbackTrue) ==
  [t EXCEPT !.conditionsMatch = All,
            !.conditions = CondString(All),
            !.callbackTrue = callbackTrue]

----------------------------------------------------------------------------
(* The arguments and the geometries the behaviours draw from. *)

ElementArgs == {Element, Null}

CallbackArgs == {Function, Undefined}

\* An omitted onEveryScrollEvent (undefined) reads as false in the one test of it.
EveryArgs == {True, False}

CenterCondition == CondObject({<<"centerIsVisible", True>>})
HiddenCondition == CondObject({<<"visibility", Hidden>>})

ConditionArgs == {CondUndefined, CondString(All), CenterCondition, HiddenCondition}

\* Windows with addEventListener, and older ones that only have attachEvent.
Apis == {"addEventListener", "attachEvent"}

Box(t, b, l, r) == [top |-> t, bottom |-> b, left |-> l, right |-> r]

View(wd, ht) == [innerWidth |-> wd, innerHeight |-> ht]

\* Rectangles getBoundingClientRect may return: inside the 800 x 600 viewport,
\* far above it, and across its top edge with the centre inside.
Rects == {Box(10, 50, 10, 50), Box(-1000, -900, 10, 50), Box(-10, 50, 10, 50)}

Views == {View(800, 600), View(40, 30)}

\* The values of the variables: the fields of the object, the window with its
\* listeners, the rectangle of the element, the closures setupEvents has
\* created, what the last operation did, and whether cancel has returned
\* since the last setupEvents, on or always.
TypeOK ==
  /\ this.element \in ElementArgs
  /\ \A side \in Sides :
       this.status[side] \in {Null, True, False, "full", "partial", "overflow", Hidden}
  /\ this.conditionsMatch \in {All, Null, True, False}
  /\ this.conditions \in ConditionArgs
  /\ this.callbackTrue \in CallbackArgs /\ this.callbackFalse \in CallbackArgs
  /\ this.onEveryScrollEvent \in EveryArgs
  /\ this.scrollHandler \in 0 .. created
  /\ window.api \in Apis
  /\ window.listeners.scroll = window.listeners.resize
  /\ \A i \in 1 .. Len(window.listeners.scroll) : window.listeners.scroll[i] \in 1 .. created
  /\ rect.top <= rect.bottom /\ rect.left <= rect.right
  /\ created \in 0 .. MaxHandlers
  /\ last.evals >= Len(last.calls)
  /\ stopped \in BOOLEAN

----------------------------------------------------------------------------
(* The state after construction. *)

\* What the last operation did: the evaluations it ran, those in which the
\* notification test passed, the callbacks they invoked and what each received,
\* whether an error was raised, and whether the status changed from
\* the status before.
Ran(op, k, before) ==
  [op |-> op, evals |-> k.evals, notified |-> k.notified, calls |-> k.calls,
   args |-> k.args,
   threw |-> k.threw, changed |-> k.this.status # before]

Init ==
  \E element \in ElementArgs, conditions \in ConditionArgs,
     callbackTrue \in CallbackArgs, callbackFalse \in CallbackArgs,
     onEveryScrollEvent \in EveryArgs, api \in Apis, r \in Rects, v \in Views :
    LET t == Constructed(element, conditions, callbackTrue, callbackFalse,
                         onEveryScrollEvent)
        w == [api |-> api, innerWidth |-> v.innerWidth, innerHeight |-> v.innerHeight,
              listeners |-> [scroll |-> <<>>, resize |-> <<>>]]
        k == Watch(t, w, r, 0)
    IN /\ this = k.this
       /\ window = k.window
       /\ rect = r
       /\ created = k.created
       /\ last = Ran("constructor", k, InitialStatus)
       /\ stopped = FALSE

----------------------------------------------------------------------------
(* The operations. *)

\* on( conditions, callbackTrue, callbackFalse, onEveryScrollEvent )
On(conditions, callbackTrue, callbackFalse, onEveryScrollEvent) ==
  LET t == OnFields(this, conditions, callbackTrue, callbackFalse, onEveryScrollEvent)
      k == Watch(t, window, rect, created)
  IN /\ Watches(t) => created < MaxHandlers
     /\ this' = k.this
     /\ window' = k.window
     /\ created' = k.created
     /\ last' = Ran("on", k, this.status)
     /\ stopped' = FALSE
     /\ UNCHANGED rect

\* always( callbackTrue )
Always(callbackTrue) ==
  LET t == AlwaysFields(this, callbackTrue)
      k == Watch(t, window, rect, created)
  IN /\ Watches(t) => created < MaxHandlers
     /\ this' = k.this
     /\ window' = k.window
     /\ created' = k.created
     /\ last' = Ran("always", k, this.status)
     /\ stopped' = FALSE
     /\ UNCHANGED rect

\* setupEvents() called by the user.
Start ==
  LET s == SetupEvents(this, window, created)
  IN /\ created < MaxHandlers
     /\ this' = s.this
     /\ window' = s.window
     /\ created' = s.created
     /\ last' = [op |-> "setupEvents", evals |-> 0, notified |-> 0, calls |-> <<>>,
               args |-> <<>>,
               threw |-> FALSE, changed |-> FALSE]
     /\ stopped' = FALSE
     /\ UNCHANGED rect

\* cancel() called by the user.
Stop ==
  LET c == Cancel(this, window)
  IN /\ window' = c.window
     /\ last' = [op |-> "cancel", evals |-> 0, notified |-> 0, calls |-> <<>>,
               args |-> <<>>,
               threw |-> c.threw, changed |-> FALSE]
     /\ stopped' = (c.threw => stopped)
     /\ UNCHANGED <<this, rect, created>>

\* checkPosition() called by the user, with no event, the page having moved
\* the element to r (a reflow or an animation fires no window event).
Evaluate(r) ==
  LET c == CheckPosition(this, window, r, Undefined)
  IN /\ rect' = r
     /\ this' = c.this
     /\ last' = [op |-> "checkPosition", evals |-> 1, notified |-> c.notified,
               calls |-> c.calls, args |-> c.args, threw |-> c.threw, changed |-> c.this.status # this.status]
     /\ UNCHANGED <<window, created, stopped>>

\* The page scrolls: the rectangle moves to r and the window fires scroll.
Scroll(r) ==
  LET d == Dispatch(this, window, r, "scroll", window.listeners.scroll)
  IN /\ rect' = r
     /\ this' = d.this
     /\ last' = Ran("scroll", d, this.status)
     /\ UNCHANGED <<window, created, stopped>>

\* The window is resized to v: the rectangle becomes r and the window fires resize.
Resize(v, r) ==
  LET w == [window EXCEPT !.innerWidth = v.innerWidth, !.innerHeight = v.innerHeight]
      d == Dispatch(this, w, r, "resize", w.listeners.resize)
  IN /\ rect' = r
     /\ window' = w
     /\ this' = d.this
     /\ last' = Ran("resize", d, this.status)
     /\ UNCHANGED <<created, stopped>>

Next ==
  \/ \E conditions \in ConditionArgs, callbackTrue \in CallbackArgs,
        callbackFalse \in CallbackArgs, onEveryScrollEvent \in EveryArgs :
       On(conditions, callbackTrue, callbackFalse, onEveryScrollEvent)
  \/ \E callbackTrue \in CallbackArgs : Always(callbackTrue)
  \/ Start
  \/ Stop
  \/ \E r \in Rects : Evaluate(r)
  \/ \E r \in Rects : Scroll(r)
  \/ \E v \in Views, r \in Rects : Resize(v, r)

Spec == Init /\ [][Next]_vars

----------------------------------------------------------------------------
(* The same operations over a grid of geometries: every rectangle with      *)
(* coordinates in -1 .. GridMax, in a wide and in a tall viewport with      *)
(* sides GridView and GridView - 1, watched by                              *)
(* new watchScroll( element, 'all', callback ).                             *)

GridCoords == (0 - 1) .. GridMax

GridRects ==
  {Box(t, b, l, r) : <<t, b, l, r>> \in
     {q \in GridCoords \X GridCoords \X GridCoords \X GridCoords :
        q[1] <= q[2] /\ q[3] <= q[4]}}

GridViews == {View(GridView, GridView - 1), View(GridView - 1, GridView)}

InitGrid ==
  \E r \in GridRects, v \in GridViews :
    LET t == Constructed(Element, CondString(All), Function, Undefined, False)
        w == [api |-> "addEventListener", innerWidth |-> v.innerWidth,
              innerHeight |-> v.innerHeight,
              listeners |-> [scroll |-> <<>>, resize |-> <<>>]]
        k == Watch(t, w, r, 0)
    IN /\ this = k.this
       /\ window = k.window
       /\ rect = r
       /\ created = k.created
       /\ last = Ran("constructor", k, InitialStatus)
       /\ stopped = FALSE

NextGrid ==
  \/ \E r \in GridRects : Scroll(r)
  \/ \E v \in GridViews : Resize(v, rect)
  \/ Evaluate(rect)

SpecGrid == InitGrid /\ [][NextGrid]_vars

----------------------------------------------------------------------------
(* Properties. *)

Called(callback, event) == <<[callback |-> callback, event |-> event]>>

\* A conditions object is met by a status when each of its properties is: a
\* property set to "hidden" asks for false, any other for its own truthiness.
Met(conditions, status) ==
  \A p \in conditions.fields :
    IF p[2] = Hidden THEN Get(status, p[1]) = False
    ELSE Get(status, p[1]) = Bool(Truthy(p[2]))

\* An object condition, both callbacks, notification on change only.
EdgeTriggered(t) ==
  /\ t.element = Element
  /\ TypeOf(t.conditions) = "object"
  /\ t.callbackTrue = Function /\ t.callbackFalse = Function
  /\ ~Truthy(t.onEveryScrollEvent)

\* C1: with an object condition, both callbacks and onEveryScrollEvent false, a
\* checkPosition() call whose match is true where the match of the previous
\* evaluation was false invokes callbackTrue once, one whose match is false
\* where it was true invokes callbackFalse once, and one whose match is that
\* of the previous evaluation invokes nothing.
C1_EdgeTriggered ==
  [][(last'.op = "checkPosition" /\ EdgeTriggered(this) /\ this.status # InitialStatus)
       => LET before == Met(this.conditions, this.status)
              after == Met(this.conditions, this'.status)
          IN /\ (~before /\ after) => last'.calls = Called("callbackTrue", Undefined)
             /\ (before /\ ~after) => last'.calls = Called("callbackFalse", Undefined)
             /\ (before = after) => last'.calls = <<>>]_vars

\* A checkPosition() call on { centerIsVisible: true } has just invoked
\* callbackTrue: the centre came into the viewport.
C1_Witness ==
  /\ last.op = "checkPosition"
  /\ EdgeTriggered(this)
  /\ this.conditions = CenterCondition
  /\ last.calls = Called("callbackTrue", Undefined)

\* C2: once cancel() has returned, and until setupEvents, on or always is
\* called again, a scroll or resize event runs no evaluation and invokes no
\* callback.
C2_StoppedIsSilent ==
  (stopped /\ last.op \in {"scroll", "resize"}) => (last.evals = 0 /\ last.calls = <<>>)

\* C3: after an evaluation under the condition { visibility: "hidden" }, the
\* recorded match is true exactly when status.visibility is "hidden".
C3_VisibilityMatches ==
  (last.evals >= 1 /\ ~last.threw /\ this.conditions = HiddenCondition)
    => ((this.conditionsMatch = True) <=> (this.status.visibility = Hidden))

\* The configuration of C4: condition "all", callbackTrue, notification on
\* change only.
AllOnChange(t) ==
  /\ IsAll(t.conditions)
  /\ t.callbackTrue = Function
  /\ ~Truthy(t.onEveryScrollEvent)

\* C4: under the condition "all" with callbackTrue and onEveryScrollEvent
\* false, an evaluation (a checkPosition() call, or the one on and always run)
\* invokes callbackTrue once if some property of the status differs from the
\* status before it, and invokes nothing if none does; the evaluation the
\* constructor runs, the first, invokes it once.
C4_AllNotifiesOnChange ==
  /\ [](last.op = "constructor" /\ last.evals = 1 /\ AllOnChange(this)
          => last.calls = Called("callbackTrue", Undefined))
  /\ [][(last'.op \in {"checkPosition", "on", "always"} /\ last'.evals = 1
           /\ AllOnChange(this'))
          => last'.calls = IF \E side \in Sides : this'.status[side] # this.status[side]
                           THEN Called("callbackTrue", Undefined)
                           ELSE <<>>]_vars

\* A checkPosition() call under "all" found the status unchanged and invoked
\* nothing.
C4_Witness ==
  /\ last.op = "checkPosition"
  /\ AllOnChange(this)
  /\ this.element = Element
  /\ ~last.changed
  /\ last.calls = <<>>

\* C5: with a condition, both callbacks and onEveryScrollEvent true, every
\* checkPosition() call on a watched element invokes one callback: callbackTrue
\* if the condition is "all" or is met by the status, callbackFalse if not.
C5_EveryEventNotifies ==
  (/\ last.op = "checkPosition"
   /\ this.element = Element
   /\ TruthyCond(this.conditions)
   /\ this.callbackTrue = Function /\ this.callbackFalse = Function
   /\ Truthy(this.onEveryScrollEvent))
    => last.calls = IF IsAll(this.conditions) \/ Met(this.conditions, this.status)
                    THEN Called("callbackTrue", Undefined)
                    ELSE Called("callbackFalse", Undefined)

\* A checkPosition() call with onEveryScrollEvent true found the status
\* unchanged and still invoked a callback.
C5_Witness ==
  /\ last.op = "checkPosition"
  /\ this.element = Element
  /\ this.conditions = CenterCondition
  /\ this.callbackTrue = Function /\ this.callbackFalse = Function
  /\ Truthy(this.onEveryScrollEvent)
  /\ ~last.changed
  /\ last.calls # <<>>

\* The status is the one checkPosition computed from the present rectangle and
\* viewport.
Fresh == last.evals >= 1 /\ ~last.threw

\* A coordinate outside the viewport's range on its axis.
Outside(c, extent) == c < 0 \/ c > extent

\* C6: when the rectangle strictly encloses the viewport, checkPosition sets
\* status.visibility to "overflow".
C6_EnclosingIsOverflow ==
  (/\ Fresh
   /\ rect.top < 0 /\ rect.bottom > window.innerHeight
   /\ rect.left < 0 /\ rect.right > window.innerWidth)
    => this.status.visibility = "overflow"

\* C7: status.visibility is "full" when the four edge flags are true, "partial"
\* when they are not all true but one of top and bottom and one of left and
\* right is, and "hidden" when the four edges are outside the viewport's range.
C7_VisibilityClasses ==
  Fresh =>
    LET st == this.status
        four == st.top = True /\ st.bottom = True /\ st.left = True /\ st.right = True
    IN /\ four => st.visibility = "full"
       /\ (/\ ~four
           /\ st.top = True \/ st.bottom = True
           /\ st.left = True \/ st.right = True) => st.visibility = "partial"
       /\ (/\ Outside(rect.top, window.innerHeight)
           /\ Outside(rect.bottom, window.innerHeight)
           /\ Outside(rect.left, window.innerWidth)
           /\ Outside(rect.right, window.innerWidth)) => st.visibility = Hidden

\* After a scroll the top edge is above the viewport, the bottom edge inside:
\* partial.
C7_Witness ==
  /\ Fresh
  /\ last.op = "scroll"
  /\ this.status.top = False /\ this.status.bottom = True
  /\ this.status.left = True
  /\ this.status.visibility = "partial"

\* C8: each edge flag is true exactly when its coordinate is in 0 .. innerHeight
\* (top, bottom) or 0 .. innerWidth (left, right), bounds included, and
\* centerIsVisible exactly when the midpoint of the rectangle is in
\* [0, innerWidth] x [0, innerHeight].
C8_EdgeAndCenterFlags ==
  Fresh =>
    /\ (this.status.top = True) <=> (rect.top \in 0 .. window.innerHeight)
    /\ (this.status.bottom = True) <=> (rect.bottom \in 0 .. window.innerHeight)
    /\ (this.status.left = True) <=> (rect.left \in 0 .. window.innerWidth)
    /\ (this.status.right = True) <=> (rect.right \in 0 .. window.innerWidth)
    /\ (this.status.centerIsVisible = True)
         <=> (/\ rect.left + rect.right \in 0 .. 2 * window.innerWidth
              /\ rect.top + rect.bottom \in 0 .. 2 * window.innerHeight)
    /\ \A side \in Sides \ {"visibility"} : this.status[side] \in {True, False}

\* After a scroll the bottom edge lies on the lower bound of the viewport and
\* counts as inside, while the centre is outside.
C8_Witness ==
  /\ Fresh
  /\ last.op = "scroll"
  /\ rect.bottom = window.innerHeight
  /\ this.status.bottom = True
  /\ this.status.centerIsVisible = False

\* C9: checkPosition() on an object without an element raises no error, leaves
\* the status and the recorded match as they were and invokes no callback.
C9_UnboundEvaluateIsNoOp ==
  [][(last'.op = "checkPosition" /\ this.element # Element)
       => /\ ~last'.threw
          /\ this'.status = this.status
          /\ this'.conditionsMatch = this.conditionsMatch
          /\ last'.calls = <<>>]_vars

\* C10, as stated: on and always on an object without an element change none
\* of its fields, attach no handler and run no evaluation.
C10_UnboundConfigureIsNoOp ==
  [][(last'.op \in {"on", "always"} /\ this.element # Element)
       => /\ this' = this
          /\ window' = window
          /\ last'.evals = 0]_vars

\* C10, amended: on and always on an object without an element attach no
\* handler, create no closure, run no evaluation and invoke no callback, and
\* leave the element and the status as they were; they do store their
\* arguments, and set the recorded match to "all" for a string condition and
\* to null for any other.
C10_UnboundConfigureOnlyStores ==
  [][(last'.op \in {"on", "always"} /\ this.element # Element)
       => /\ window' = window
          /\ created' = created
          /\ this'.scrollHandler = this.scrollHandler
          /\ last'.evals = 0 /\ last'.calls = <<>> /\ ~last'.threw
          /\ this'.element = this.element
          /\ this'.status = this.status
          /\ this'.conditionsMatch =
               IF TypeOf(this'.conditions) = "string" THEN All ELSE Null]_vars

\* on has stored a condition and a callback on an object without an element,
\* and nothing listens.
C10_Witness ==
  /\ last.op = "on"
  /\ this.element # Element
  /\ this.conditions = CenterCondition
  /\ this.callbackTrue = Function
  /\ window.listeners.scroll = <<>>
  /\ this.status = InitialStatus

----------------------------------------------------------------------------
(* The same operations under every conditions object of at most MaxFields   *)
(* properties, named after the six properties of the status or after none   *)
(* of them, watched by new watchScroll( element, conditions, f, g, every ). *)

\* A property name the status does not have.
Unrecognized == "colour"

FieldNames == Sides \cup {Unrecognized}

FieldValues == {True, False, Hidden}

\* An object has each property once.
FieldSets ==
  {fs \in SUBSET (FieldNames \X FieldValues) :
     /\ Cardinality(fs) <= MaxFields
     /\ \A p \in fs, q \in fs : p[1] = q[1] => p = q}

MatchConditions == {CondObject(fs) : fs \in FieldSets}

InitMatch ==
  \E conditions \in MatchConditions, onEveryScrollEvent \in EveryArgs,
     r \in Rects, v \in Views :
    LET t == Constructed(Element, conditions, Function, Function, onEveryScrollEvent)
        w == [api |-> "addEventListener", innerWidth |-> v.innerWidth,
              innerHeight |-> v.innerHeight,
              listeners |-> [scroll |-> <<>>, resize |-> <<>>]]
        k == Watch(t, w, r, 0)
    IN /\ this = k.this
       /\ window = k.window
       /\ rect = r
       /\ created = k.created
       /\ last = Ran("constructor", k, InitialStatus)
       /\ stopped = FALSE

NextMatch ==
  \/ \E r \in Rects : Scroll(r)
  \/ \E v \in Views, r \in Rects : Resize(v, r)
  \/ \E r \in Rects : Evaluate(r)

SpecMatch == InitMatch /\ [][NextMatch]_vars

\* The conditions without their properties of unrecognized names.
Recognized(conditions) ==
  CondObject({p \in conditions.fields : p[1] \in Sides})

HasUnrecognized(conditions) == \E p \in conditions.fields : p[1] \notin Sides

\* C11, as stated: a property of an unrecognized name takes no part in the
\* matching; after an evaluation the recorded match is the match of the
\* conditions without such properties.
C11_UnrecognizedIgnored ==
  (Fresh /\ TypeOf(this.conditions) = "object")
    => this.conditionsMatch = Bool(Met(Recognized(this.conditions), this.status))

\* C11, amended: a conditions object with a property of an unrecognized name
\* never matches; after an evaluation the recorded match is false, whatever
\* its other properties and the status; without such a property the recorded
\* match is the match of the conditions.
C11_UnrecognizedNeverMatches ==
  (Fresh /\ TypeOf(this.conditions) = "object")
    => this.conditionsMatch =
         Bool(~HasUnrecognized(this.conditions) /\ Met(this.conditions, this.status))

\* The recognized property of the conditions is met, the unrecognized one makes
\* the match false, and callbackFalse has been invoked.
C11_Witness ==
  /\ Fresh
  /\ last.op = "checkPosition"
  /\ HasUnrecognized(this.conditions)
  /\ Recognized(this.conditions) # CondObject({})
  /\ Met(Recognized(this.conditions), this.status)
  /\ this.conditionsMatch = False
  /\ last.calls = Called("callbackFalse", Undefined)

\* C12: at most one handler of the object is registered for scroll, and at
\* most one for resize.
C12_AtMostOneHandler ==
  Len(window.listeners.scroll) <= 1 /\ Len(window.listeners.resize) <= 1

\* C13, as stated: after always the condition is "all" and callbackFalse is
\* unset.
C13_AlwaysClearsCallbackFalse ==
  [][last'.op = "always"
       => IsAll(this'.conditions) /\ this'.callbackFalse = Undefined]_vars

\* C13, amended: after always the condition and the recorded match are "all"
\* and callbackFalse is what it was; a callbackFalse left from an earlier on or
\* from the constructor is not invoked, but it counts as a callback when always
\* decides whether to attach and evaluate.
C13_AlwaysKeepsCallbackFalse ==
  [][last'.op = "always"
       => /\ IsAll(this'.conditions) /\ this'.conditionsMatch = All
          /\ this'.callbackFalse = this.callbackFalse
          /\ \A i \in 1 .. Len(last'.calls) : last'.calls[i].callback # "callbackFalse"
          /\ (this.element = Element /\ this.callbackFalse = Function)
               => (last'.evals = 1 /\ created' = created + 1)]_vars

\* always( undefined ) on an object with a callbackFalse has attached a handler
\* and evaluated, and invoked nothing.
C13_Witness ==
  /\ last.op = "always"
  /\ this.element = Element
  /\ this.callbackTrue = Undefined
  /\ this.callbackFalse = Function
  /\ last.evals = 1
  /\ last.calls = <<>>
  /\ this.scrollHandler = created

\* The event the last operation handed to checkPosition.
EventOf(op) == IF op \in {"scroll", "resize"} THEN op ELSE Undefined

\* The callback that answers the recorded match.
Answering(t) == IF Truthy(t.conditionsMatch) THEN "callbackTrue" ELSE "callbackFalse"

\* Whether that callback is a function.
Supplied(t) ==
  IF Truthy(t.conditionsMatch) THEN t.callbackTrue = Function
  ELSE t.callbackFalse = Function

\* Each invoked callback answers the recorded match and receives the event,
\* the status just computed and the object, with the element as its this.
WellCalled ==
  /\ Len(last.args) = Len(last.calls)
  /\ \A i \in 1 .. Len(last.calls) :
       /\ last.calls[i] = [callback |-> Answering(this), event |-> EventOf(last.op)]
       /\ last.args[i] = [thisArg |-> Element, event |-> EventOf(last.op),
                          status |-> this.status, watchScroll |-> this]

\* C14, as stated: an evaluation in which the notification test passes invokes
\* exactly one callback, the one that answers the match, with the event, the
\* status just computed and the object, and the element as its this.
C14_ExactlyOneCallback ==
  (last.evals = 1 /\ last.notified = 1) => (Len(last.calls) = 1 /\ WellCalled)

\* C14, amended: an evaluation in which the notification test passes invokes
\* the callback that answers the match once if it is a function and nothing
\* otherwise, never the other callback; one in which the test does not pass
\* invokes nothing; an invoked callback receives the event (undefined if
\* none), the status just computed and the object, with the element as its
\* this.
C14_AtMostOneCallback ==
  /\ WellCalled
  /\ Len(last.calls) <= last.notified
  /\ last.notified <= last.evals
  /\ (last.evals = 1 /\ last.notified = 1)
       => (Len(last.calls) = IF Supplied(this) THEN 1 ELSE 0)

\* A scroll event has invoked callbackFalse with the event and the new status.
C14_Witness ==
  /\ last.op = "scroll"
  /\ last.evals = 1 /\ last.notified = 1
  /\ last.calls = Called("callbackFalse", "scroll")
  /\ last.args[1].status = this.status
  /\ last.changed

\* A status with every property unset, and one with every property definite.
Unset(status) == \A side \in Sides : status[side] = Null

Definite(status) ==
  /\ \A side \in Sides \ {"visibility"} : status[side] \in {True, False}
  /\ status.visibility \in {"full", "partial", "overflow", Hidden}

\* C15: the six properties of the status are all unset or all definite; an
\* operation that evaluates the position of an element leaves them definite,
\* and once definite they stay definite.
C15_StatusDefinedness ==
  /\ [](Unset(this.status) \/ Definite(this.status))
  /\ [](last.evals >= 1 /\ this.element = Element => Definite(this.status))
  /\ [][Definite(this.status) => Definite(this'.status)]_vars

\* The first evaluation of an object constructed without callbacks has made the
\* status definite, with the element out of the viewport.
C15_Witness ==
  /\ last.op = "checkPosition"
  /\ this.callbackTrue = Undefined /\ this.callbackFalse = Undefined
  /\ last.changed
  /\ Definite(this.status)
  /\ this.status.visibility = Hidden

\* No conditions, or neither callback.
Unconfigured(t) ==
  \/ ~TruthyCond(t.conditions)
  \/ ~Truthy(t.callbackTrue) /\ ~Truthy(t.callbackFalse)

\* C16: without conditions, or without both callbacks, the constructor, on and
\* always attach no handler, run no evaluation, leave the status as it was,
\* invoke no callback and raise no error.
C16_UnconfiguredDoesNothing ==
  /\ [](last.op = "constructor" /\ Unconfigured(this)
          => /\ window.listeners.scroll = <<>> /\ window.listeners.resize = <<>>
             /\ created = 0 /\ this.scrollHandler = NoHandler
             /\ this.status = InitialStatus
             /\ last.evals = 0 /\ last.calls = <<>> /\ ~last.threw)
  /\ [][last'.op \in {"on", "always"} /\ Unconfigured(this')
          => /\ window' = window
             /\ created' = created /\ this'.scrollHandler = this.scrollHandler
             /\ this'.status = this.status
             /\ last'.evals = 0 /\ last'.calls = <<>> /\ ~last'.threw]_vars

\* on has stored conditions without any callback on an object that has an
\* element and listens through an earlier handler: nothing ran.
C16_Witness ==
  /\ last.op = "on"
  /\ this.element = Element
  /\ this.conditions = CenterCondition
  /\ this.callbackTrue = Undefined /\ this.callbackFalse = Undefined
  /\ last.evals = 0
  /\ Len(window.listeners.scroll) = 1

\* C17: under a conditions object, after an operation that evaluates the
\* position of an element the recorded match is the boolean match of the
\* conditions against the status just computed, with or without callbacks and
\* whatever onEveryScrollEvent is; it is null only while nothing has been
\* evaluated since the constructor or on stored the conditions.
C17_RecordedMatchIsFresh ==
  /\ [](last.evals >= 1 /\ this.element = Element /\ TypeOf(this.conditions) = "object"
          => this.conditionsMatch = Bool(Met(this.conditions, this.status)))
  /\ [][(TypeOf(this'.conditions) = "object" /\ this'.conditionsMatch = Null)
          => (last'.op = "on" \/ this.conditionsMatch = Null)]_vars

\* Without callbacks and with onEveryScrollEvent false, a checkPosition() call
\* has recorded that the centre is not visible.
C17_Witness ==
  /\ last.op = "checkPosition"
  /\ this.conditions = CenterCondition
  /\ this.callbackTrue = Undefined /\ this.callbackFalse = Undefined
  /\ ~Truthy(this.onEveryScrollEvent)
  /\ this.status.centerIsVisible = False
  /\ this.conditionsMatch = False

\* C18: one scroll or resize event runs at most one evaluation and invokes at
\* most one callback.
C18_OneEventOneEvaluation ==
  last.op \in {"scroll", "resize"} => (last.evals <= 1 /\ Len(last.calls) <= 1)

C20_AllNeverCallsFalse ==
  IsAll(this.conditions)
    => \A i \in 1 .. Len(last.calls) : last.calls[i].callback # "callbackFalse"

\* Under "all" with only callbackFalse and onEveryScrollEvent true, the
\* notification test of a checkPosition() call has passed and nothing was
\* invoked.
C20_Witness ==
  /\ last.op = "checkPosition"
  /\ IsAll(this.conditions)
  /\ this.callbackTrue = Undefined /\ this.callbackFalse = Function
  /\ Truthy(this.onEveryScrollEvent)
  /\ last.notified = 1
  /\ last.calls = <<>>

====
